---- MODULE Spec2Model ----
(***************************************************************************)
(* The streaming dialogue client of font-vue/src/views/Chat.vue: the       *)
(* message log, the in-flight flag, the mode flag, and the handlers that   *)
(* sendMessage registers on a streaming request.                           *)
(*                                                                         *)
(* Strings are sequences of characters, so that trimming and concatenation *)
(* are computed and not assumed.  An optional JavaScript value is a        *)
(* sequence of length 0 (undefined / absent) or 1 (present).               *)
(***************************************************************************)
EXTENDS Integers, Sequences, FiniteSets, TLC

VARIABLES
    messages,      \* messages.value : the conversation log            (l.16)
    inputText,     \* inputText.value                                    (l.17)
    loading,       \* loading.value : the in-flight flag                 (l.18)
    sessionId,     \* sessionId.value                                    (l.22)
    useAgentMode,  \* useAgentMode.value                                 (l.25)
    mounted,       \* whether the onMounted hook has run                 (l.28)
    now,           \* the value Date.now() returned when it was last read
    streams,       \* one entry per call of queryAgentStream/queryQuestionStream
    notices        \* number of ElMessage.error notices raised           (l.154)

vars == <<messages, inputText, loading, sessionId, useAgentMode, mounted,
          now, streams, notices>>

----------------------------------------------------------------------------
(* Bounds of the model *)

\* accepted submissions (stream calls) per behaviour
MaxExchanges == 3
\* callbacks the stream calls may invoke, all exchanges together
MaxEvents == 2

----------------------------------------------------------------------------
(* Values *)

None == <<>>
Some(x) == <<x>>

\* String.prototype.trim strips these from both ends
Whitespace == {" "}

\* texts the user can put in the input box
Inputs == { <<>>, <<" ">>, <<" ", "q", " ">> }

\* answer chunks a stream can deliver
Chunks == { <<"a">>, <<" ", "b">> }

\* table results a stream can deliver
Tables == { "t1", "t2" }

\* the done event's metadata: row_count absent or present
RowCounts == { None, Some(12) }

\* the error event's message (a string): empty, or a text
ErrorMessages == { Some(<<>>), Some(<<"e">>) }

\* suffixes Math.random() can contribute to the session id
RandomSuffixes == { "r1" }

\* The three fixed phrases, each one token (the module's strings are ASCII):
\* the welcome text of l.32
WelcomeText == << "WELCOME" >>
\* '抱歉，我无法理解您的问题' (l.103, l.140)
GenericFallback == << "SORRY_NOT_UNDERSTOOD" >>
\* '抱歉，服务暂时不可用，请稍后重试。' (l.151)
TransportFallback == << "SORRY_SERVICE_UNAVAILABLE" >>

----------------------------------------------------------------------------
(* Pure helpers *)

RECURSIVE TrimStart(_)
TrimStart(s) ==
    IF s # <<>> /\ Head(s) \in Whitespace THEN TrimStart(Tail(s)) ELSE s

RECURSIVE TrimEnd(_)
TrimEnd(s) ==
    IF s # <<>> /\ s[Len(s)] \in Whitespace
    THEN TrimEnd(SubSeq(s, 1, Len(s) - 1))
    ELSE s

\* String.prototype.trim
Trim(s) == TrimEnd(TrimStart(s))

\* formatTime: the hour and minute of a date, so coarser than the clock
\* (two clock readings fall in one displayed minute)
formatTime(d) == d \div 2

\* messages.value.find(m => m.id === id): the FIRST message with that id,
\* 0 when there is none
Find(msgs, id) ==
    IF \E i \in 1..Len(msgs) : msgs[i].id = id
    THEN CHOOSE i \in 1..Len(msgs) :
            /\ msgs[i].id = id
            /\ \A j \in 1..(i - 1) : msgs[j].id # id
    ELSE 0

\* { ...d, k: v }
Spread(d, k, v) == [x \in DOMAIN d \cup {k} |-> IF x = k THEN v ELSE d[x]]

\* message || fallback : an absent or empty message is falsy
OrFallback(message, fallback) ==
    IF message = None \/ message[1] = <<>> THEN fallback ELSE message[1]

----------------------------------------------------------------------------
(* Initial state: the component's setup has run, onMounted has not *)

Init ==
    /\ messages = <<>>
    /\ inputText = <<>>
    /\ loading = FALSE
    /\ now = 0
    /\ sessionId \in { <<"session", 0, r>> : r \in RandomSuffixes }
    /\ useAgentMode = TRUE
    /\ mounted = FALSE
    /\ streams = <<>>
    /\ notices = 0

----------------------------------------------------------------------------
(* The environment: the clock, the user, the mounting of the component *)

\* what the clock can have advanced by between two handlers: not at all
\* (they run within the same tick), or by one tick.  Message ids matter
\* only through which of them are equal.  With 0 the new placeholder gets
\* the id of the previous one; with 1 the new user message gets it, and the
\* new placeholder's id is fresh, as it is after any larger advance.
\* Within one handler the clock is read at one tick; setup and onMounted
\* run in one tick.
Advances == {0, 1}

\* onMounted: push the welcome message
Mount ==
    /\ ~mounted
    /\ mounted' = TRUE
    /\ messages' = Append(messages,
            [id |-> now, role |-> "assistant", content |-> WelcomeText,
             time |-> formatTime(now), data |-> None, isStreaming |-> None])
    /\ UNCHANGED <<inputText, loading, sessionId, useAgentMode, now, streams,
                   notices>>

\* v-model="inputText", and the quick-action items: inputText = t
SetInput(t) ==
    /\ mounted
    /\ inputText # t
    /\ inputText' = t
    /\ UNCHANGED <<messages, loading, sessionId, useAgentMode, mounted, now,
                   streams, notices>>

\* a toggle that also switches the handler set of the streams already opened
ToggleModeRewiring ==
    /\ mounted
    /\ useAgentMode' = ~useAgentMode
    /\ streams' = [e \in 1..Len(streams) |->
                        [streams[e] EXCEPT !.agent = ~useAgentMode]]
    /\ UNCHANGED <<messages, inputText, loading, sessionId, mounted, now,
                   notices>>

\* the mode toggle: useAgentMode = !useAgentMode
ToggleMode ==
    /\ mounted
    /\ useAgentMode' = ~useAgentMode
    /\ UNCHANGED <<messages, inputText, loading, sessionId, mounted, now,
                   streams, notices>>

----------------------------------------------------------------------------
(* sendMessage, up to the point where it awaits the stream call *)

\* the guard of l.54 without its test of loading
AcceptedIgnoringLoading(text) == text # <<>>

\* the guard of l.54: the submission is taken
Accepted(text) == ~(text = <<>> \/ loading)

\* the user message of l.57-62
UserMessage(text, t) ==
    [id |-> t, role |-> "user", content |-> text, time |-> formatTime(t),
     data |-> None, isStreaming |-> None]

\* a placeholder that is created already settled
AssistantPlaceholderSettled(t) ==
    [id |-> t + 1, role |-> "assistant", content |-> <<>>,
     time |-> formatTime(t), data |-> Some(<<>>), isStreaming |-> Some(FALSE)]

\* the assistant placeholder of l.68-76; t is the reading of Date.now() at l.68
AssistantPlaceholder(t) ==
    [id |-> t + 1, role |-> "assistant", content |-> <<>>,
     time |-> formatTime(t), data |-> Some(<<>>), isStreaming |-> Some(TRUE)]

\* a stream call that is sent with a session id made anew for the call
OpenStreamFreshSession(text, assistantMsgId, placeholder) ==
    [status |-> "open", assistantMsgId |-> assistantMsgId,
     agent |-> useAgentMode, question |-> text,
     sessionId |-> <<"session", assistantMsgId, sessionId[3]>>,
     placeholder |-> placeholder, hist |-> <<>>]

\* the stream call opened at l.84 / l.112 and the closure it captures
OpenStream(text, assistantMsgId, placeholder) ==
    [status |-> "open", assistantMsgId |-> assistantMsgId,
     agent |-> useAgentMode, question |-> text, sessionId |-> sessionId,
     placeholder |-> placeholder, hist |-> <<>>]

\* d is what the clock advanced by since the last handler read it
sendMessage(d) ==
    LET text == Trim(inputText)
        t == now + d
    IN
    /\ mounted
    /\ IF Accepted(text)
       THEN /\ Len(streams) < MaxExchanges
            /\ messages' = messages \o
                    << UserMessage(text, t), AssistantPlaceholder(t) >>
            /\ inputText' = <<>>
            /\ now' = t
            /\ loading' = TRUE
            /\ streams' = Append(streams,
                    OpenStream(text, t + 1, Len(messages) + 2))
            /\ UNCHANGED <<sessionId, useAgentMode, mounted, notices>>
       ELSE UNCHANGED vars

----------------------------------------------------------------------------
(* What the handlers do to the log.  Each looks its message up by id. *)

\* an onAnswer that also marks the message as streaming again
AnswerPatchResuming(msgs, id, chunk) ==
    LET i == Find(msgs, id) IN
    IF i = 0 THEN msgs
    ELSE [msgs EXCEPT ![i].content = @ \o chunk,
                      ![i].isStreaming = Some(TRUE)]

\* onAnswer (l.85-91 and l.113-119): msg.content += chunk
AnswerPatch(msgs, id, chunk) ==
    LET i == Find(msgs, id) IN
    IF i = 0 THEN msgs ELSE [msgs EXCEPT ![i].content = @ \o chunk]

\* onTable (l.120-127): msg.data = { ...msg.data, table, success: true }
TablePatch(msgs, id, table) ==
    LET i == Find(msgs, id) IN
    IF i = 0 THEN msgs
    ELSE LET d == IF msgs[i].data = None THEN <<>> ELSE msgs[i].data[1] IN
         [msgs EXCEPT ![i].data =
                Some(Spread(Spread(d, "table", table), "success", TRUE))]

\* onDone of the agent mode (l.92-96): msg.isStreaming = false
AgentDonePatch(msgs, id) ==
    LET i == Find(msgs, id) IN
    IF i = 0 THEN msgs ELSE [msgs EXCEPT ![i].isStreaming = Some(FALSE)]

\* onDone of the normal mode (l.128-133): msg.isStreaming = false and
\* msg.data = { ...msg.data, row_count: data.row_count }
DonePatch(msgs, id, row_count) ==
    LET i == Find(msgs, id) IN
    IF i = 0 THEN msgs
    ELSE LET d == IF msgs[i].data = None THEN <<>> ELSE msgs[i].data[1] IN
         [msgs EXCEPT ![i].isStreaming = Some(FALSE),
                      ![i].data = Some(Spread(d, "row_count", row_count))]

\* onError that also resets the payload of the message
ErrorPatchClearingData(msgs, id, message) ==
    LET i == Find(msgs, id) IN
    IF i = 0 THEN msgs
    ELSE [msgs EXCEPT ![i].content = OrFallback(message, GenericFallback),
                      ![i].isStreaming = Some(FALSE),
                      ![i].data = Some(<<>>)]

\* onError (l.100-105 and l.137-142)
ErrorPatch(msgs, id, message) ==
    LET i == Find(msgs, id) IN
    IF i = 0 THEN msgs
    ELSE [msgs EXCEPT ![i].content = OrFallback(message, GenericFallback),
                      ![i].isStreaming = Some(FALSE)]

\* the catch block (l.149-153)
CatchPatch(msgs, id) ==
    LET i == Find(msgs, id) IN
    IF i = 0 THEN msgs
    ELSE [msgs EXCEPT ![i].content = TransportFallback,
                      ![i].isStreaming = Some(FALSE)]

----------------------------------------------------------------------------
(* The stream call of exchange e.  queryAgentStream and queryQuestionStream *)
(* are imported (l.4); what sendMessage can rely on is only that the call  *)
(* invokes the handlers it was given and then returns or throws.  So the   *)
(* call invokes them in any order and number (MaxEvents calls over all     *)
(* exchanges) until it returns or throws; hist is the record of its calls. *)

IsOpen(e) ==
    /\ e \in 1..Len(streams)
    /\ streams[e].status = "open"

RECURSIVE Delivered(_)
Delivered(n) == IF n = 0 THEN 0 ELSE Len(streams[n].hist) + Delivered(n - 1)

CanCall(e) == IsOpen(e) /\ Delivered(Len(streams)) < MaxEvents

Record(e, kind, arg) ==
    [streams EXCEPT ![e].hist = Append(@, [kind |-> kind, arg |-> arg])]

onAnswer(e, chunk) ==
    /\ CanCall(e)
    /\ messages' = AnswerPatch(messages, streams[e].assistantMsgId, chunk)
    /\ streams' = Record(e, "answer", chunk)
    /\ UNCHANGED <<inputText, loading, sessionId, useAgentMode, mounted, now,
                   notices>>

\* only the normal mode registers onTable
onTable(e, table) ==
    /\ CanCall(e)
    /\ ~streams[e].agent
    /\ messages' = TablePatch(messages, streams[e].assistantMsgId, table)
    /\ streams' = Record(e, "table", Some(table))
    /\ UNCHANGED <<inputText, loading, sessionId, useAgentMode, mounted, now,
                   notices>>

\* the agent mode's onDone takes no argument
onDone(e, row_count) ==
    /\ CanCall(e)
    /\ streams[e].agent => row_count = None
    /\ messages' = IF streams[e].agent
                   THEN AgentDonePatch(messages, streams[e].assistantMsgId)
                   ELSE DonePatch(messages, streams[e].assistantMsgId, row_count)
    /\ loading' = FALSE
    /\ streams' = Record(e, "done", row_count)
    /\ UNCHANGED <<inputText, sessionId, useAgentMode, mounted, now, notices>>

onError(e, message) ==
    /\ CanCall(e)
    /\ messages' = ErrorPatch(messages, streams[e].assistantMsgId, message)
    /\ loading' = FALSE
    /\ streams' = Record(e, "error", message)
    /\ UNCHANGED <<inputText, sessionId, useAgentMode, mounted, now, notices>>

\* the awaited call rejects: the catch block of l.148-157
StreamThrows(e) ==
    /\ IsOpen(e)
    /\ messages' = CatchPatch(messages, streams[e].assistantMsgId)
    /\ notices' = notices + 1
    /\ loading' = FALSE
    /\ streams' = [streams EXCEPT ![e].status = "thrown"]
    /\ UNCHANGED <<inputText, sessionId, useAgentMode, mounted, now>>

\* the awaited call resolves: sendMessage falls off its end (l.147, l.158)
StreamReturns(e) ==
    /\ IsOpen(e)
    /\ streams' = [streams EXCEPT ![e].status = "returned"]
    /\ UNCHANGED <<messages, inputText, loading, sessionId, useAgentMode,
                   mounted, now, notices>>

----------------------------------------------------------------------------

Next ==
    \/ Mount
    \/ \E t \in Inputs : SetInput(t)
    \/ ToggleMode
    \/ \E d \in Advances : sendMessage(d)
    \/ \E e \in 1..MaxExchanges :
        \/ \E chunk \in Chunks : onAnswer(e, chunk)
        \/ \E table \in Tables : onTable(e, table)
        \/ \E row_count \in RowCounts : onDone(e, row_count)
        \/ \E message \in ErrorMessages : onError(e, message)
        \/ StreamThrows(e)
        \/ StreamReturns(e)

Spec == Init /\ [][Next]_vars

----------------------------------------------------------------------------
(* Vocabulary of the properties *)

Exchanges == 1..Len(streams)

\* the assistant message that sendMessage pushed for exchange e
Placeholder(e) == messages[streams[e].placeholder]

IsStreaming(m) == m.isStreaming = Some(TRUE)

StreamingMessages == { i \in 1..Len(messages) : IsStreaming(messages[i]) }

\* the kinds of the callbacks exchange e's stream call has invoked
Kinds(e) == { streams[e].hist[k].kind : k \in 1..Len(streams[e].hist) }

\* the step is the stream call of e invoking the handler of this kind
Calls(e, kind) ==
    /\ e \in Exchanges
    /\ Len(streams'[e].hist) = Len(streams[e].hist) + 1
    /\ streams'[e].hist[Len(streams'[e].hist)].kind = kind

\* the argument of that call
Arg(e) == streams'[e].hist[Len(streams'[e].hist)].arg

\* the step is the stream call of e throwing / returning
Throws(e) ==
    e \in Exchanges /\ streams[e].status = "open" /\ streams'[e].status = "thrown"

Returns(e) ==
    e \in Exchanges /\ streams[e].status = "open" /\ streams'[e].status = "returned"

\* msg.data.k, undefined (None) when the message has no data or no such key
Field(m, k) ==
    IF m.data # None /\ k \in DOMAIN m.data[1] THEN Some(m.data[1][k]) ELSE None

----------------------------------------------------------------------------
(* C1: in every reachable state at most one message of the log has         *)
(* isStreaming = true, that is, at most one exchange is in flight.         *)

C1_AtMostOneStreaming == Cardinality(StreamingMessages) <= 1

(* C2: sendMessage is a no-op when the trimmed input is empty or loading   *)
(* is true: a step of sendMessage taken in such a state changes no         *)
(* variable - not the log, not a message, not loading, not the set of      *)
(* stream calls, not the input text.                                       *)

C2_RejectedSubmitIsNoOp ==
    [][ ( /\ Trim(inputText) = <<>> \/ loading
          /\ \E d \in Advances : sendMessage(d) )
        => UNCHANGED vars ]_vars

\* a submission of a non-empty text arrives while an exchange is in flight
C2_Witness ==
    /\ mounted
    /\ loading
    /\ Trim(inputText) # <<>>
    /\ Len(streams) < MaxExchanges
    /\ \E e \in Exchanges : streams[e].status = "open"

(* C3: for every exchange whose stream call delivered answer chunks        *)
(* t1..tn (n >= 0) and then onDone, and did not throw, the content of the  *)
(* exchange's assistant message is t1 \o ... \o tn, in arrival order.      *)

\* the calls of h are answer chunks (and tables) closed by one final done
ChunksThenDone(h) ==
    /\ h # <<>>
    /\ h[Len(h)].kind = "done"
    /\ \A k \in 1..(Len(h) - 1) : h[k].kind \in {"answer", "table"}

RECURSIVE Concatenation(_)
Concatenation(h) ==
    IF h = <<>> THEN <<>>
    ELSE IF Head(h).kind = "answer"
         THEN Head(h).arg \o Concatenation(Tail(h))
         ELSE Concatenation(Tail(h))

C3_ContentIsConcatenation ==
    \A e \in Exchanges :
        (ChunksThenDone(streams[e].hist) /\ streams[e].status # "thrown")
            => Placeholder(e).content = Concatenation(streams[e].hist)

(* C4: Complete and Failed are absorbing: once a message's isStreaming has *)
(* been set to false, no step changes that message.                        *)

C4_TerminalIsAbsorbing ==
    [][ \A i \in 1..Len(messages) :
            messages[i].isStreaming = Some(FALSE) => messages'[i] = messages[i]
      ]_vars

(* C5: every exchange clears the in-flight flag on every exit path of its  *)
(* stream call: once every stream call has returned or thrown, loading is  *)
(* false.                                                                  *)

C5_SettledClearsLoading ==
    (\A e \in Exchanges : streams[e].status # "open") => ~loading

(* C6: if the stream call of an exchange returns without having invoked    *)
(* onDone or onError, the exchange's assistant message does not keep       *)
(* isStreaming = true.                                                     *)

C6_SilentReturnFails ==
    \A e \in Exchanges :
        (streams[e].status = "returned" /\ Kinds(e) \cap {"done", "error"} = {})
            => ~IsStreaming(Placeholder(e))

(* C7: every exchange reaches exactly one of Complete (onDone ran) and     *)
(* Failed (onError or the catch block ran): never both, and at least one   *)
(* by the time its stream call has returned or thrown.                     *)

ReachedComplete(e) == "done" \in Kinds(e)
ReachedFailed(e) == "error" \in Kinds(e) \/ streams[e].status = "thrown"

C7_ExactlyOneOutcome ==
    \A e \in Exchanges :
        /\ ~(ReachedComplete(e) /\ ReachedFailed(e))
        /\ streams[e].status # "open" => ReachedComplete(e) \/ ReachedFailed(e)

(* C8: when the stream call of an exchange throws, the exchange's          *)
(* assistant message gets the transport fallback phrase as its content and *)
(* isStreaming = false, loading is cleared and one error notice is raised. *)

C8_ThrowFallsBack ==
    [][ \A e \in Exchanges :
            Throws(e) =>
                /\ Placeholder(e)'.content = TransportFallback
                /\ Placeholder(e)'.isStreaming = Some(FALSE)
                /\ ~loading'
                /\ notices' = notices + 1
      ]_vars

(* C9: in the normal mode, after onTable(table) and then onDone(meta), the *)
(* exchange's assistant message has data.table = the last table received,  *)
(* data.success = true, data.row_count = meta.row_count (undefined when    *)
(* the event carries none) and isStreaming = false.                        *)

\* the argument of the last onTable call in h, None when there is none
RECURSIVE LastTable(_)
LastTable(h) ==
    IF h = <<>> THEN None
    ELSE IF h[Len(h)].kind = "table" THEN h[Len(h)].arg
         ELSE LastTable(SubSeq(h, 1, Len(h) - 1))

C9_TableThenDone ==
    [][ \A e \in Exchanges :
            (Calls(e, "done") /\ ~streams[e].agent /\ "table" \in Kinds(e)) =>
                /\ Field(Placeholder(e)', "table") = LastTable(streams[e].hist)
                /\ Field(Placeholder(e)', "success") = Some(TRUE)
                /\ Field(Placeholder(e)', "row_count") \in {None, Some(Arg(e))}
                /\ Arg(e) # None =>
                        Field(Placeholder(e)', "row_count") = Some(Arg(e))
                /\ Placeholder(e)'.isStreaming = Some(FALSE)
      ]_vars

(* C10: on onError(message), in either mode, the exchange's assistant      *)
(* message gets message as its content when message is non-empty and the   *)
(* generic fallback phrase otherwise, replacing what was accumulated;      *)
(* isStreaming becomes false and loading is cleared.                       *)

C10_ErrorOverwrites ==
    [][ \A e \in Exchanges :
            Calls(e, "error") =>
                /\ Placeholder(e)'.content =
                        IF Arg(e) = None \/ Arg(e) = Some(<<>>)
                        THEN GenericFallback ELSE Arg(e)[1]
                /\ Placeholder(e)'.isStreaming = Some(FALSE)
                /\ ~loading'
      ]_vars

(* C11: error handling leaves the structured payload untouched: a step of  *)
(* onError or of the catch block changes the data of no message, so a      *)
(* table received before the error and data.success stay as they were;     *)
(* only content and isStreaming of a message change.                       *)

C11_ErrorKeepsPayload ==
    [][ \A e \in Exchanges :
            (Calls(e, "error") \/ Throws(e)) =>
                /\ Len(messages') = Len(messages)
                /\ \A i \in 1..Len(messages) :
                        /\ messages'[i].data = messages[i].data
                        /\ messages'[i].id = messages[i].id
                        /\ messages'[i].role = messages[i].role
                        /\ messages'[i].time = messages[i].time
      ]_vars

\* an exchange received a table and then an error; its message has the
\* error text and still has the table
C11_Witness ==
    \E e \in Exchanges :
        /\ Len(streams[e].hist) = 2
        /\ streams[e].hist[1].kind = "table"
        /\ streams[e].hist[2].kind = "error"
        /\ Placeholder(e).content = GenericFallback
        /\ Placeholder(e).isStreaming = Some(FALSE)
        /\ Field(Placeholder(e), "table") = streams[e].hist[1].arg
        /\ Field(Placeholder(e), "success") = Some(TRUE)

(* C12: the messages of the log have pairwise distinct ids at all times    *)
(* (the welcome message, each user message, each assistant placeholder),   *)
(* for any non-decreasing sequence of clock readings.                      *)

C12_DistinctIds ==
    \A i, j \in 1..Len(messages) :
        i # j => messages[i].id # messages[j].id

(* C13: the log is append-only and the callbacks of an exchange change     *)
(* only that exchange's own placeholder: no message is removed or          *)
(* reordered, user messages and the welcome message never change, and a    *)
(* handler or the catch block of exchange e changes no message other than  *)
(* the placeholder of e.                                                   *)

\* the step is a callback, or the catch block, of exchange e
Handles(e) ==
    \/ Throws(e)
    \/ \E kind \in {"answer", "table", "done", "error"} : Calls(e, kind)

C13_OnlyOwnPlaceholder ==
    [][ /\ Len(messages') >= Len(messages)
        /\ \A i \in 1..Len(messages) :
                /\ messages'[i].id = messages[i].id
                /\ messages'[i].role = messages[i].role
                /\ (messages[i].role = "user" \/ i = 1)
                        => messages'[i] = messages[i]
                /\ \A e \in Exchanges :
                        (Handles(e) /\ i # streams[e].placeholder)
                            => messages'[i] = messages[i]
      ]_vars

(* C14: in the agent mode the assistant message's data never acquires a    *)
(* table, success or row_count field, whatever the stream events.          *)

C14_AgentHasNoPayload ==
    \A e \in Exchanges :
        streams[e].agent =>
            \A k \in {"table", "success", "row_count"} :
                Field(Placeholder(e), k) = None

(* C15: the session id is created once, at setup, and never changes; every *)
(* stream call, in either mode and after any number of turns and mode      *)
(* toggles, is sent with that session id.                                  *)

C15_OneSessionId ==
    [][ /\ sessionId' = sessionId
        /\ \A e \in 1..Len(streams') : streams'[e].sessionId = sessionId
      ]_vars

\* two exchanges of different modes were sent, both with the session id
C15_Witness ==
    \E e1, e2 \in Exchanges :
        /\ streams[e1].agent /\ ~streams[e2].agent
        /\ streams[e1].sessionId = sessionId
        /\ streams[e2].sessionId = sessionId

(* C16: an accepted sendMessage (trimmed text non-empty, loading false)    *)
(* appends exactly two messages in one step: a user message whose content  *)
(* is the trimmed input, then an assistant placeholder with empty content, *)
(* empty data and isStreaming true.  The same step clears the input text   *)
(* and sets loading, and the new exchange has handled no stream event yet. *)
(* Messages are appended by no other step but the welcome message's.       *)

\* the step opens a new exchange
Submits == Len(streams') = Len(streams) + 1

C16_AcceptAppendsPair ==
    [][ /\ Submits =>
            /\ Trim(inputText) # <<>> /\ ~loading
            /\ Len(messages') = Len(messages) + 2
            /\ SubSeq(messages', 1, Len(messages)) = messages
            /\ LET u == messages'[Len(messages) + 1]
                   a == messages'[Len(messages) + 2]
               IN  /\ u.role = "user"
                   /\ u.content = Trim(inputText)
                   /\ a.role = "assistant"
                   /\ a.content = <<>>
                   /\ a.data = Some(<<>>)
                   /\ a.isStreaming = Some(TRUE)
            /\ inputText' = <<>>
            /\ loading'
            /\ streams'[Len(streams')].hist = <<>>
            /\ streams'[Len(streams')].placeholder = Len(messages) + 2
        /\ (Len(messages') # Len(messages)) => (Submits \/ ~mounted)
        /\ Len(streams') # Len(streams) => Submits
      ]_vars

\* the state an accepted submission of " q " leaves behind
C16_Witness ==
    /\ Len(streams) = 1
    /\ Len(messages) = 3
    /\ streams[1].hist = <<>>
    /\ streams[1].status = "open"
    /\ messages[2].role = "user"
    /\ messages[2].content = <<"q">>
    /\ messages[3].role = "assistant"
    /\ messages[3].content = <<>>
    /\ messages[3].isStreaming = Some(TRUE)
    /\ inputText = <<>>
    /\ loading

(* C17: isStreaming is monotone per message: a message whose isStreaming   *)
(* is false (after onDone, onError or the catch handler), or that was      *)
(* created without it (user messages, the welcome message), never has it   *)
(* true in any later state, whatever events and submissions follow.        *)

C17_StreamingIsMonotone ==
    [][ \A i \in 1..Len(messages) :
            ~IsStreaming(messages[i]) =>
                /\ i <= Len(messages')
                /\ ~IsStreaming(messages'[i])
      ]_vars

\* a stream went on calling onAnswer after its onDone; the message stays settled
C17_Witness ==
    \E e \in Exchanges :
        /\ Len(streams[e].hist) = 2
        /\ streams[e].hist[1].kind = "done"
        /\ streams[e].hist[2].kind = "answer"
        /\ Placeholder(e).isStreaming = Some(FALSE)
        /\ Placeholder(e).content = streams[e].hist[2].arg
        /\ messages[1].isStreaming = None
        /\ messages[2].isStreaming = None

(* C18: the in-flight flag agrees with the log: whenever some assistant    *)
(* message has isStreaming true, loading is true, so no new submission is  *)
(* accepted while a reply is still streaming; also when a stream goes on   *)
(* to throw or to call handlers after its terminal callback while a newer  *)
(* exchange is running.                                                    *)

C18_StreamingImpliesLoading == StreamingMessages # {} => loading

(* C19: the mode of an exchange is fixed at submission.  The handler set   *)
(* is chosen from the mode flag as it is when sendMessage is accepted;     *)
(* toggling the flag afterwards changes no message and no exchange, and    *)
(* the exchange's remaining events go to the handlers chosen at            *)
(* submission: an agent exchange handles no table event and its onDone     *)
(* writes no data, a normal exchange's onDone writes data.row_count.  The  *)
(* toggle shows only in the next accepted submission.                      *)

\* the step flips the mode flag
Toggles == useAgentMode' # useAgentMode

C19_ModeFixedAtSubmission ==
    [][ /\ Toggles =>
            /\ messages' = messages
            /\ streams' = streams
            /\ loading' = loading
            /\ inputText' = inputText
        /\ \A e \in Exchanges : streams'[e].agent = streams[e].agent
        /\ Submits => streams'[Len(streams')].agent = useAgentMode
        /\ \A e \in Exchanges :
            /\ Calls(e, "table") => ~streams[e].agent
            /\ (Calls(e, "done") /\ streams[e].agent) =>
                    \A i \in 1..Len(messages) :
                        messages'[i].data = messages[i].data
            /\ (Calls(e, "done") /\ ~streams[e].agent) =>
                    LET i == Find(messages, streams[e].assistantMsgId)
                    IN  Field(messages'[i], "row_count") = Some(Arg(e))
      ]_vars

\* a normal-mode exchange is still in flight, the flag has been toggled to
\* agent mode since its submission, and its table event was handled
C19_Witness ==
    \E e \in Exchanges :
        /\ ~streams[e].agent
        /\ useAgentMode
        /\ streams[e].status = "open"
        /\ loading
        /\ Len(streams[e].hist) = 1
        /\ streams[e].hist[1].kind = "table"
        /\ Field(Placeholder(e), "table") = streams[e].hist[1].arg
        /\ IsStreaming(Placeholder(e))

====
